---- MODULE Spec2Model ----
(***************************************************************************)
(* Model of ping_urls.py: check_url (one HEAD probe of one URL) and main   *)
(* (read the input CSV, probe every URL on a ThreadPoolExecutor, collect   *)
(* the records with as_completed, write the output CSV).                   *)
(*                                                                         *)
(* Strings that the program inspects (CSV fields, URLs) are sequences of   *)
(* one-character strings; messages are TLA+ strings.  Python's None is the *)
(* empty tuple <<>> and a present value v is <<v>>.  Clock readings are in *)
(* units of 0.1 ms, response_time is in ms (three decimals of a second).   *)
(***************************************************************************)
EXTENDS Integers, Sequences, FiniteSets, TLC

\* ---------------------------------------------------------------- bounds
MaxRows == 2        \* rows of the input CSV in the small batches
MaxUrls == 11       \* URLs of the large batches (more than the pool holds)

\* ------------------------------------------------------- program constants
max_workers == 10   \* ThreadPoolExecutor(max_workers=10)
timeout == 5        \* urlopen(req, timeout=5), seconds

None == <<>>
Some(v) == <<v>>

\* ------------------------------------------------------------ strings
Whitespace == {" "}

RECURSIVE LStrip(_)
LStrip(s) ==
    IF s # <<>> /\ Head(s) \in Whitespace THEN LStrip(Tail(s)) ELSE s

RECURSIVE RStrip(_)
RStrip(s) ==
    IF s # <<>> /\ s[Len(s)] \in Whitespace
    THEN RStrip(SubSeq(s, 1, Len(s) - 1)) ELSE s

\* str.strip(): leading and trailing whitespace removed
strip(s) == RStrip(LStrip(s))

RECURSIVE Join(_)
Join(s) == IF s = <<>> THEN "" ELSE Head(s) \o Join(Tail(s))

\* repr() of a str without quotes or escapes in it
Repr(s) == "'" \o Join(s) \o "'"

\* urllib.parse._splittype: the scheme is what precedes the first ':' when
\* it is non-empty and holds no '/'
HasScheme(s) ==
    \E i \in 2..Len(s) :
        /\ s[i] = ":"
        /\ \A j \in 1..(i - 1) : s[j] \notin {":", "/"}

\* the scheme of a URL that has one; "h" stands for http, "f" for file
Scheme(s) ==
    SubSeq(s, 1, (CHOOSE i \in 2..Len(s) :
                    s[i] = ":" /\ \A j \in 1..(i - 1) : s[j] # ":") - 1)

\* the schemes of the default opener that send no HTTP request
IsLocal(s) == Scheme(s) = <<"f">>

\* ------------------------------------------------------------ exceptions
\* Python's class hierarchy: the classes a class derives from, itself first
Mro(cls) ==
    CASE cls = "HTTPError" ->
            {"HTTPError", "URLError", "OSError", "Exception", "BaseException"}
      [] cls = "URLError" -> {"URLError", "OSError", "Exception", "BaseException"}
      [] cls = "TimeoutError" ->
            {"TimeoutError", "OSError", "Exception", "BaseException"}
      [] cls = "ValueError" -> {"ValueError", "Exception", "BaseException"}
      [] OTHER -> {cls, "BaseException"}

IsInstance(e, base) == base \in Mro(e.cls)

HTTPError(code, msg) == [cls |-> "HTTPError", code |-> code, msg |-> msg]
URLError(reason) == [cls |-> "URLError", code |-> 0, msg |-> reason]
TimeoutError(msg) == [cls |-> "TimeoutError", code |-> 0, msg |-> msg]
ValueError(msg) == [cls |-> "ValueError", code |-> 0, msg |-> msg]

\* str(e): HTTPError.__str__, URLError.__str__, BaseException.__str__
Str(e) ==
    IF e.cls = "HTTPError"
    THEN "HTTP Error " \o ToString(e.code) \o ": " \o e.msg
    ELSE IF e.cls = "URLError"
    THEN "<urlopen error " \o e.msg \o ">"
    ELSE e.msg

\* ------------------------------------------------------------ the network
\* What the remote end does with one HEAD request.
Status(code, reason) == [kind |-> "status", code |-> code, reason |-> reason]
Refused == [kind |-> "refused", code |-> 0, reason |-> "[Errno 111] Connection refused"]
NoAnswer == [kind |-> "noanswer", code |-> 0, reason |-> "timed out"]

\* What the local file system does with a file: URL.
FileFound == [kind |-> "file", code |-> 0, reason |-> ""]
FileMissing ==
    [kind |-> "nofile", code |-> 0, reason |-> "[Errno 2] No such file or directory"]

LocalAnswers == { FileFound, FileMissing }

Answers ==
    { Status(200, "OK"), Status(404, "Not Found"),
      Status(500, "Internal Server Error"), Refused, NoAnswer }

\* HeadRequest(url): Request.__init__ raises ValueError without a scheme
HeadRequest(url) ==
    IF HasScheme(url)
    THEN [raised |-> FALSE, req |-> url, exc |-> None]
    ELSE [raised |-> TRUE, req |-> url,
          exc |-> Some(ValueError("unknown url type: " \o Repr(url)))]

\* urllib.request.urlopen(req, timeout=5): a 2xx answer is returned as the
\* response, any other status is raised as HTTPError by the default opener,
\* a failed connection as URLError, a read that times out as TimeoutError.
\* A file: URL is opened by the FileHandler: its response has no status
\* (getcode() is None), a missing file is a URLError.  code is getcode().
urlopen(req, net) ==
    IF net.kind = "status"
    THEN IF 200 <= net.code /\ net.code < 300
         THEN [raised |-> FALSE, code |-> Some(net.code), exc |-> None]
         ELSE [raised |-> TRUE, code |-> None,
               exc |-> Some(HTTPError(net.code, net.reason))]
    ELSE IF net.kind = "file"
    THEN [raised |-> FALSE, code |-> None, exc |-> None]
    ELSE IF net.kind \in {"refused", "nofile"}
    THEN [raised |-> TRUE, code |-> None, exc |-> Some(URLError(net.reason))]
    ELSE [raised |-> TRUE, code |-> None, exc |-> Some(TimeoutError(net.reason))]

\* round(x, 3) of a duration given in 0.1 ms, in ms (ties to even)
Round3(d) ==
    LET q == d \div 10
        r == d % 10
    IN  IF r < 5 THEN q
        ELSE IF r > 5 THEN q + 1
        ELSE IF q % 2 = 0 THEN q ELSE q + 1

\* ------------------------------------------------------------ check_url
\* the dictionary built at the top of check_url
NewDetails(url) ==
    [url |-> url, is_404 |-> FALSE, status_code |-> None,
     response_time |-> None, error |-> ""]

CatchOSError == "OSError"

\* the class named by the last except clause of check_url
CatchAll == "Exception"

\* the body of the try statement: [raised, details, exc]
TryBody(details, net) ==
    LET made == HeadRequest(details.url)
        resp == urlopen(made.req, net)
    IN  IF made.raised
        THEN [raised |-> TRUE, details |-> details, exc |-> made.exc]
        ELSE IF resp.raised
        THEN [raised |-> TRUE, details |-> details, exc |-> resp.exc]
        ELSE [raised |-> FALSE,
              details |-> [details EXCEPT !.status_code = resp.code,
                                          !.is_404 = (resp.code = Some(404))],
              exc |-> None]

OnHTTPErrorNoText(details, e) ==
    [details EXCEPT !.status_code = Some(e.code),
                    !.is_404 = (e.code = 404)]

OnHTTPErrorNoCode(details, e) ==
    [details EXCEPT !.is_404 = (e.code = 404),
                    !.error = Str(e)]

OnHTTPErrorNoFlag(details, e) ==
    [details EXCEPT !.status_code = Some(e.code),
                    !.error = Str(e)]

\* except urllib.error.HTTPError as e
OnHTTPError(details, e) ==
    [details EXCEPT !.status_code = Some(e.code),
                    !.is_404 = (e.code = 404),
                    !.error = Str(e)]

OnExceptionSilent(details, e) == details

\* except Exception as e
OnException(details, e) ==
    [details EXCEPT !.error = Str(e)]

StampedOnSuccess(details, start, end) ==
    IF details.error = "" THEN [details EXCEPT !.response_time = Some(Round3(end - start))]
    ELSE details

\* details["response_time"] = round(time.time() - start, 3), after the try
\* statement, on every path that reaches the return
Stamped(details, start, end) ==
    [details EXCEPT !.response_time = Some(Round3(end - start))]

\* check_url(url) when the remote end does net and time.time() reads start
\* on entry and end before the return: [raised, value, exc].  An exception
\* that no except clause names leaves the function.
check_url(url, net, start, end) ==
    LET tried == TryBody(NewDetails(url), net)
        e == tried.exc[1]
        handled ==
            IF ~tried.raised THEN Some(tried.details)
            ELSE IF IsInstance(e, "HTTPError") THEN Some(OnHTTPError(tried.details, e))
            ELSE IF IsInstance(e, CatchAll) THEN Some(OnException(tried.details, e))
            ELSE None
    IN  IF handled = None
        THEN [raised |-> TRUE, value |-> None, exc |-> tried.exc]
        ELSE [raised |-> FALSE,
              value |-> Some(Stamped(handled[1], start, end)),
              exc |-> None]

\* ------------------------------------------------------------ inputs
GoodUrl == <<"h", ":", "x">>
DownUrl == <<"h", ":", "y">>
FileUrl == <<"f", ":", "x">>

\* first fields of the rows of input_urls.csv
Fields ==
    { <<>>, <<" ">>, <<"x">>, GoodUrl, <<" ">> \o GoodUrl \o <<" ">> }

\* rows as csv.reader yields them: a blank line is the empty list
Rows ==
    {<<>>} \cup { <<f>> : f \in Fields } \cup { <<GoodUrl, <<"x">>>> }

RECURSIVE SeqsUpTo(_, _)
SeqsUpTo(S, n) ==
    IF n = 0 THEN {<<>>}
    ELSE LET shorter == SeqsUpTo(S, n - 1)
         IN  shorter \cup
             { Append(q, x) : q \in { r \in shorter : Len(r) = n - 1 }, x \in S }

Repeat(x, n) == [i \in 1..n |-> x]

\* a file of n URLs that are up but for the k-th, which is down
OneDown(n, k) == [i \in 1..n |-> IF i = k THEN <<DownUrl>> ELSE <<GoodUrl>>]

\* the large input files: every URL up, every URL down, the first one down,
\* the last one down
PoolInputs ==
    UNION { { Repeat(<<GoodUrl>>, n), Repeat(<<DownUrl>>, n),
              OneDown(n, 1), OneDown(n, n) }
            : n \in 0..MaxUrls }

\* The environment of a run: "probe" is one URL against every answer and
\* clock; "batch" is a short file against a few answers, in every order of
\* completion; "pool" is a long file whose hosts answer in one way each and
\* in the order they were asked.
Inputs(w) ==
    CASE w = "probe" -> { <<<<f>>>> : f \in Fields \cup {FileUrl} }
      [] w = "batch" -> SeqsUpTo(Rows, MaxRows)
      [] w = "pool" -> PoolInputs

Network(w, url) ==
    CASE w = "probe" -> Answers
      [] w = "batch" -> { Status(200, "OK"), Status(404, "Not Found"), Refused }
      [] w = "pool" -> IF url = DownUrl THEN {Refused} ELSE {Status(200, "OK")}

\* readings <<start, end>> of time.time() around one probe; the wall clock
\* may be set back in between; no answer takes the whole timeout
Clocks(w, net) ==
    IF w = "probe"
    THEN IF net.kind = "noanswer"
         THEN { <<0, timeout * 10000 + 6>>, <<70000, 20000>> }
         ELSE { <<0, 0>>, <<10, 1255>>, <<10, 1265>>, <<1255, 10>> }
    ELSE IF net.kind = "noanswer" THEN { <<0, timeout * 10000 + 6>> }
    ELSE { <<10, 1255>> }

\* a host of the "pool" environment answers its requests in their order
InTurn(w, t, urlOf, futs) ==
    w = "pool" =>
        \A u \in 1..(t - 1) : urlOf[u] = urlOf[t] => futs[u].state = "FINISHED"

\* the elements of a set of numbers in ascending order
Ascending(S) ==
    [i \in 1..Cardinality(S) |->
        CHOOSE x \in S : Cardinality({ y \in S : y < x }) = i - 1]

RECURSIVE Orders(_)
Orders(S) ==
    IF S = {} THEN {<<>>}
    ELSE UNION { { <<x>> \o q : q \in Orders(S \ {x}) } : x \in S }

\* list(finished): the orders in which a set of futures may be iterated
\* (by hash, that is by address); the "pool" environment keeps one of them
ListOf(w, S) == IF w = "pool" THEN {Ascending(S)} ELSE Orders(S)

\* ------------------------------------------------------------ state
VARIABLES
    world,          \* the environment of this run
    rows,           \* the rows of input_urls.csv
    pc,             \* where main is
    rd,             \* number of rows main has read
    urls,           \* main's urls
    future_to_url,  \* main's future_to_url: future i is for future_to_url[i]
    futures,        \* the Future objects: state, result, exception
    answered,       \* what the remote end did with the request of future i
    work_queue,     \* the executor's queue of submitted, unstarted work
    num_threads,    \* worker threads the executor has started
    idle_semaphore, \* the executor's count of workers known to be idle
    pending,        \* as_completed: futures not done when last looked at
    finished,       \* as_completed: done futures it is about to yield
    waiter,         \* as_completed: waiter.finished_futures
    results,        \* main's results
    printed,        \* lines main has printed
    output          \* rows written to no_html_results.csv

vars ==
    <<world, rows, pc, rd, urls, future_to_url, futures, answered, work_queue,
      num_threads, idle_semaphore, pending, finished, waiter, results, printed,
      output>>

Start(w) ==
    /\ world = w
    /\ rows \in Inputs(w)
    /\ pc = "read"
    /\ rd = 0
    /\ urls = <<>>
    /\ future_to_url = <<>>
    /\ futures = <<>>
    /\ answered = <<>>
    /\ work_queue = <<>>
    /\ num_threads = 0
    /\ idle_semaphore = 0
    /\ pending = {}
    /\ finished = <<>>
    /\ waiter = <<>>
    /\ results = <<>>
    /\ printed = <<>>
    /\ output = <<>>

Init == \E w \in {"probe", "batch"} : Start(w)

InitPool == Start("pool")

\* ------------------------------------------------------------ main: input
\* "if row:" -- an empty list is false, any other list is true
Truthy(row) == row # <<>>

\* one iteration of "for row in reader"
ReadRow ==
    /\ pc = "read"
    /\ rd < Len(rows)
    /\ rd' = rd + 1
    /\ urls' = IF Truthy(rows[rd + 1])
               THEN Append(urls, strip(rows[rd + 1][1]))
               ELSE urls
    /\ UNCHANGED <<world, rows, pc, future_to_url, futures, answered, work_queue,
                   num_threads, idle_semaphore, pending, finished, waiter, results, printed,
                   output>>

\* the reader is exhausted: results = [] and the executor is created
OpenPool ==
    /\ pc = "read"
    /\ rd = Len(rows)
    /\ pc' = "submit"
    /\ results' = <<>>
    /\ UNCHANGED <<world, rows, rd, urls, future_to_url, futures, answered,
                   work_queue, num_threads, idle_semaphore, pending, finished, waiter,
                   printed, output>>

\* ------------------------------------------------------------ the pool
NewFuture == [state |-> "PENDING", result |-> None, exception |-> None]

Running == { t \in 1..Len(futures) : futures[t].state = "RUNNING" }

AnyThread(n) == TRUE

\* ThreadPoolExecutor._adjust_thread_count starts a thread only below the limit
MayStartThread(n) == n < max_workers

\* executor.submit(check_url, url) for the next url of the comprehension
Submit ==
    /\ pc = "submit"
    /\ Len(future_to_url) < Len(urls)
    /\ LET i == Len(future_to_url) + 1
       IN  /\ future_to_url' = Append(future_to_url, urls[i])
           /\ futures' = Append(futures, NewFuture)
           /\ answered' = Append(answered, None)
           /\ work_queue' = Append(work_queue, i)
    /\ idle_semaphore' = IF idle_semaphore > 0 THEN idle_semaphore - 1
                         ELSE idle_semaphore
    /\ num_threads' = IF idle_semaphore = 0 /\ MayStartThread(num_threads)
                      THEN num_threads + 1 ELSE num_threads
    /\ UNCHANGED <<world, rows, pc, rd, urls, pending, finished, waiter, results,
                   printed, output>>

\* an idle worker thread takes the oldest work item and calls check_url
StartTask ==
    /\ work_queue # <<>>
    /\ Cardinality(Running) < num_threads
    /\ futures' = [futures EXCEPT ![Head(work_queue)].state = "RUNNING"]
    /\ work_queue' = Tail(work_queue)
    /\ UNCHANGED <<world, rows, pc, rd, urls, future_to_url, answered,
                   num_threads, idle_semaphore, pending, finished, waiter, results, printed,
                   output>>

\* what the remote end may do with a request for url; a URL that never
\* becomes a request reaches nobody
Unreached == [kind |-> "unreached", code |-> 0, reason |-> ""]

Reach(w, url) ==
    IF HeadRequest(url).raised THEN {Unreached}
    ELSE IF IsLocal(url) THEN LocalAnswers
    ELSE Network(w, url)

\* _WorkItem.run: the future gets check_url's return value or its exception
Completed(ret) ==
    [state |-> "FINISHED", result |-> ret.value, exception |-> ret.exc]

SettleFailFast(futs, t, ret) ==
    [u \in 1..Len(futs) |->
        IF u = t THEN Completed(ret)
        ELSE IF futs[u].state = "PENDING" /\ ret.value # None
                /\ ret.value[1].error # ""
        THEN [futs[u] EXCEPT !.state = "CANCELLED"]
        ELSE futs[u]]

\* the futures once future t has got ret: no other future is touched
Settle(futs, t, ret) == [futs EXCEPT ![t] = Completed(ret)]

\* check_url(url) of future t returns (or raises) on its worker thread
FinishTask(t) ==
    /\ futures[t].state = "RUNNING"
    /\ InTurn(world, t, future_to_url, futures)
    /\ \E net \in Reach(world, future_to_url[t]) :
         \E clk \in Clocks(world, net) :
            /\ futures' = Settle(futures, t,
                   check_url(future_to_url[t], net, clk[1], clk[2]))
            /\ answered' = [answered EXCEPT ![t] = Some(net)]
    /\ waiter' = IF t \in pending THEN Append(waiter, t) ELSE waiter
    /\ idle_semaphore' = idle_semaphore + 1
    /\ UNCHANGED <<world, rows, pc, rd, urls, future_to_url, work_queue,
                   num_threads, pending, finished, results, printed, output>>

\* ------------------------------------------------------------ main: collect
\* as_completed takes a future for done once it is finished
Done(f) == f.state = "FINISHED"

\* the comprehension is done and as_completed(future_to_url) starts: it
\* sorts the futures into done and pending and installs its waiter
AsCompleted ==
    /\ pc = "submit"
    /\ Len(future_to_url) = Len(urls)
    /\ pc' = "collect"
    /\ LET done == { t \in 1..Len(futures) : Done(futures[t]) }
       IN  /\ finished' \in ListOf(world, done)
           /\ pending' = (1..Len(futures)) \ done
    /\ waiter' = <<>>
    /\ UNCHANGED <<world, rows, rd, urls, future_to_url, futures, answered,
                   work_queue, num_threads, idle_semaphore, results, printed, output>>

\* as_completed has yielded all it had and waits for its waiter's event:
\* it takes the futures that finished meanwhile, in finishing order
Wake ==
    /\ pc = "collect"
    /\ finished = <<>>
    /\ waiter # <<>>
    /\ finished' = waiter
    /\ waiter' = <<>>
    /\ UNCHANGED <<world, rows, pc, rd, urls, future_to_url, futures, answered,
                   work_queue, num_threads, idle_semaphore, pending, results,
                   printed, output>>

AppendedUnlessListed(list, r) ==
    IF \E i \in 1..Len(list) : list[i].url = r.url THEN list ELSE Append(list, r)

Overwritten(list, r) == <<r>>

Prepended(list, r) == <<r>> \o list

\* results.append(result)
Appended(list, r) == Append(list, r)

ErrorLine(url, exc) == "Error checking " \o Join(url) \o ": " \o Str(exc)

\* one iteration of the for loop: as_completed yields the next future and
\* the body takes its result
Collect ==
    /\ pc = "collect"
    /\ finished # <<>>
    /\ LET t == Head(finished)
       IN  /\ results' = IF futures[t].exception = None
                         THEN Appended(results, futures[t].result[1])
                         ELSE results
           /\ printed' = IF futures[t].exception = None
                         THEN printed
                         ELSE Append(printed, ErrorLine(future_to_url[t],
                                                        futures[t].exception[1]))
           /\ pending' = pending \ {t}
    /\ finished' = Tail(finished)
    /\ UNCHANGED <<world, rows, pc, rd, urls, future_to_url, futures, answered,
                   work_queue, num_threads, idle_semaphore, waiter, output>>

JoinedNever == work_queue = <<>> /\ Running = {} /\ num_threads = 0

\* shutdown(wait=True) returns when every worker thread has ended, which a
\* worker does once the queue is empty and its work item is done
Joined == work_queue = <<>> /\ Running = {}

ExitPoolEarly ==
    /\ pc = "collect"
    /\ finished = <<>>
    /\ Joined
    /\ pc' = "write"
    /\ num_threads' = 0
    /\ UNCHANGED <<world, rows, rd, urls, future_to_url, futures, answered,
                   work_queue, idle_semaphore, pending, finished, waiter, results,
                   printed, output>>

\* as_completed is exhausted and the with block is left
ExitPool ==
    /\ pc = "collect"
    /\ finished = <<>>
    /\ pending = {}
    /\ Joined
    /\ pc' = "write"
    /\ num_threads' = 0
    /\ UNCHANGED <<world, rows, rd, urls, future_to_url, futures, answered,
                   work_queue, idle_semaphore, pending, finished, waiter, results,
                   printed, output>>

\* ------------------------------------------------------------ main: output
Header == <<"URL", "Is 404", "Status Code", "Response Time", "Error">>

BoolStr(b) == IF b THEN "True" ELSE "False"

\* repr of a float given in thousandths
FloatStr(ms) ==
    LET a == IF ms < 0 THEN 0 - ms ELSE ms
        f == a % 1000
        frac == IF f % 100 = 0 THEN ToString(f \div 100)
                ELSE IF f % 10 = 0
                THEN ToString(f \div 100) \o ToString((f \div 10) % 10)
                ELSE ToString(f \div 100) \o ToString((f \div 10) % 10)
                     \o ToString(f % 10)
    IN  (IF ms < 0 THEN "-" ELSE "") \o ToString(a \div 1000) \o "." \o frac

\* csv.writer writes None as the empty string and the rest with str()
OutRow(r) ==
    << Join(r.url),
       BoolStr(r.is_404),
       IF r.status_code = None THEN "" ELSE ToString(r.status_code[1]),
       IF r.response_time = None THEN "" ELSE FloatStr(r.response_time[1]),
       r.error >>

WrittenIfAny(recs) ==
    IF recs = <<>> THEN <<>>
    ELSE <<Header>> \o [i \in 1..Len(recs) |-> OutRow(recs[i])]

\* writer.writerow(header), then writer.writerow(...) for each record
Written(recs) == <<Header>> \o [i \in 1..Len(recs) |-> OutRow(recs[i])]

\* the output file is written: the header, then one row per record
WriteOutput ==
    /\ pc = "write"
    /\ output' = Written(results)
    /\ printed' = Append(printed, "Results written to no_html_results.csv")
    /\ pc' = "done"
    /\ UNCHANGED <<world, rows, rd, urls, future_to_url, futures, answered,
                   work_queue, num_threads, idle_semaphore, pending, finished,
                   waiter, results>>

Next ==
    \/ ReadRow
    \/ OpenPool
    \/ Submit
    \/ StartTask
    \/ \E t \in 1..Len(futures) : FinishTask(t)
    \/ AsCompleted
    \/ Wake
    \/ Collect
    \/ ExitPool
    \/ WriteOutput

Spec == Init /\ [][Next]_vars

SpecPool == InitPool /\ [][Next]_vars

\* Every thread that can take a step is scheduled in the end, and every
\* network call ends: it answers, fails or runs into its timeout.
Fairness ==
    /\ WF_vars(ReadRow)
    /\ WF_vars(OpenPool)
    /\ WF_vars(Submit)
    /\ WF_vars(StartTask)
    /\ WF_vars(\E t \in 1..Len(futures) : FinishTask(t))
    /\ WF_vars(AsCompleted)
    /\ WF_vars(Wake)
    /\ WF_vars(Collect)
    /\ WF_vars(ExitPool)
    /\ WF_vars(WriteOutput)

\* one URL; short files of good URLs and blank lines, against every mix of
\* answers in every order; the longest files, all up, all down and the last
\* one down
InitFair ==
    \/ Start("probe")
    \/ Start("batch") /\ \A i \in 1..Len(rows) : rows[i] \in {<<GoodUrl>>, <<>>}
    \/ Start("pool") /\ Len(rows) = MaxUrls /\ rows # OneDown(MaxUrls, 1)

FairSpec == InitFair /\ [][Next]_vars /\ Fairness

\* ------------------------------------------------------------ properties
Futures == 1..Len(futures)

CountUrl(recs, u) == Cardinality({ i \in 1..Len(recs) : recs[i].url = u })

Occurrences(list, u) == Cardinality({ i \in 1..Len(list) : list[i] = u })

Range(q) == { q[i] : i \in 1..Len(q) }

Collected == pc \in {"write", "done"}

\* C1: when the collection loop has ended, results holds for every URL as
\* many records as the URL has occurrences in the submitted list.
C1_OneRecordPerUrl ==
    Collected =>
        /\ Len(results) = Len(urls)
        /\ \A u \in Range(urls) \cup { r.url : r \in Range(results) } :
              CountUrl(results, u) = Occurrences(urls, u)

C1_Witness ==
    /\ Collected
    /\ Len(urls) = 2
    /\ urls[1] = urls[2]
    /\ CountUrl(results, urls[1]) = 2
    /\ results[1].error # results[2].error

\* C2: check_url never raises: every finished future holds a record and no
\* exception, and main never prints an "Error checking" line.
C2_NeverRaises ==
    /\ \A t \in Futures :
          futures[t].state = "FINISHED" =>
              futures[t].exception = None /\ futures[t].result # None
    /\ \A i \in 1..Len(printed) :
          printed[i] = "Results written to no_html_results.csv"

C2_Witness ==
    /\ pc = "done"
    /\ \E t \in Futures : future_to_url[t] = <<>> /\ futures[t].result # None
    /\ \E r \in Range(results) : r.url = <<>> /\ r.error # ""

Answer(t) == answered[t][1]

Got404(t) ==
    /\ futures[t].state = "FINISHED"
    /\ Answer(t).kind = "status"
    /\ Answer(t).code = 404

\* C3 as stated: a probe of an endpoint that answers 404 yields status_code
\* 404, is_404 true and an empty error.
C3_Original ==
    \A t \in Futures :
        Got404(t) =>
            /\ futures[t].result # None
            /\ futures[t].result[1].status_code = Some(404)
            /\ futures[t].result[1].is_404
            /\ futures[t].result[1].error = ""

\* C3 as amended: a probe of an endpoint that answers 404 yields status_code
\* 404, is_404 true and the HTTPError's text as error.
C3_NotFound ==
    \A t \in Futures :
        Got404(t) =>
            /\ futures[t].result # None
            /\ futures[t].result[1].status_code = Some(404)
            /\ futures[t].result[1].is_404
            /\ futures[t].result[1].error = "HTTP Error 404: Not Found"

C3_Witness == \E t \in Futures : Got404(t) /\ futures[t].result # None

\* the request of future t was answered neither with a 2xx status nor
\* with a local file
CallFailed(t) ==
    /\ futures[t].state = "FINISHED"
    /\ ~(Answer(t).kind = "status" /\ Answer(t).code \in 200..299)
    /\ Answer(t).kind # "file"

NoStatus(t) == Answer(t).kind # "status"

\* C4: a probe whose network call failed returns a record with a non-empty
\* error; when no status code was obtained, status_code is None and is_404
\* is false.
C4_FailureHasError ==
    \A t \in Futures :
        CallFailed(t) =>
            /\ futures[t].result # None
            /\ futures[t].result[1].error # ""
            /\ NoStatus(t) =>
                  /\ futures[t].result[1].status_code = None
                  /\ futures[t].result[1].is_404 = FALSE

C4_Witness ==
    /\ \E t \in Futures :
          CallFailed(t) /\ Answer(t).kind = "noanswer" /\ futures[t].result # None
    /\ world = "probe"

\* C5 as stated: every URL handed to the pool is non-empty after trimming.
C5_NoEmptyUrl ==
    \A i \in 1..Len(future_to_url) : strip(future_to_url[i]) # <<>>

\* C6: in every record check_url returned, is_404 is true exactly when
\* status_code is present and is 404.
C6_Is404Iff ==
    \A t \in Futures :
        (futures[t].state = "FINISHED" /\ futures[t].result # None) =>
            (futures[t].result[1].is_404
                <=> futures[t].result[1].status_code = Some(404))

C6_Witness ==
    /\ \E t \in Futures : futures[t].result # None /\ futures[t].result[1].is_404
    /\ \E r \in Range(results) : r.status_code = None /\ ~r.is_404

\* C7: the number of check_url calls in flight never exceeds the pool size;
\* work submitted beyond it waits in the queue.
C7_BoundedInFlight ==
    /\ Cardinality(Running) <= max_workers
    /\ num_threads <= max_workers

C7_Witness ==
    /\ Cardinality(Running) = max_workers
    /\ work_queue # <<>>
    /\ Len(future_to_url) > max_workers

\* C8: main is past the with block (and writes output) only when every
\* submitted probe has finished and its record is in results, nothing is
\* queued or running and the worker threads have ended.
C8_JoinBeforeOutput ==
    (Collected \/ output # <<>>) =>
        /\ Len(futures) = Len(urls)
        /\ \A t \in Futures : futures[t].state = "FINISHED"
        /\ work_queue = <<>>
        /\ Running = {}
        /\ num_threads = 0
        /\ pending = {} /\ finished = <<>> /\ waiter = <<>>
        /\ Len(results) = Len(urls)
        /\ \A t \in Futures : futures[t].result[1] \in Range(results)

C8_Witness ==
    /\ pc = "write"
    /\ Len(urls) > max_workers
    /\ \E r \in Range(results) : r.error # ""
    /\ \E r \in Range(results) : r.error = ""

\* C9: under fair scheduling, with every network call ending, the run
\* reaches its end with every URL probed and one output row per URL after
\* the header.
C9_Completes ==
    <>( /\ pc = "done"
        /\ Len(futures) = Len(urls)
        /\ \A t \in Futures : futures[t].state = "FINISHED"
        /\ Len(output) = Len(urls) + 1 )

C9_Witness ==
    /\ pc = "done"
    /\ Len(urls) > max_workers
    /\ Len(output) = Len(urls) + 1
    /\ \E r \in Range(results) : r.error # ""
    /\ \E r \in Range(results) : r.error = ""

\* what a record says of the probe's outcome
Core(r) == <<r.url, r.is_404, r.status_code, r.error>>

\* C10: a probe's end touches no other probe: no future is ever cancelled,
\* a running probe can always end whatever the others do, a record depends
\* only on the probe's own URL and answer, and the step that ends one probe
\* leaves every other future and the queue as they were.
C10_Isolation ==
    /\ [](\A t \in Futures : futures[t].state \in {"PENDING", "RUNNING", "FINISHED"})
    /\ [](\A t \in Futures : futures[t].state = "RUNNING" => ENABLED FinishTask(t))
    /\ [](\A t, u \in Futures :
            ( /\ futures[t].state = "FINISHED" /\ futures[u].state = "FINISHED"
              /\ future_to_url[t] = future_to_url[u]
              /\ answered[t] = answered[u] )
            => Core(futures[t].result[1]) = Core(futures[u].result[1]))
    /\ [][ \A t \in Futures :
             (futures[t].state = "RUNNING" /\ futures'[t].state = "FINISHED") =>
                 /\ work_queue' = work_queue
                 /\ \A u \in Futures \ {t} :
                       futures'[u] = futures[u] /\ answered'[u] = answered[u] ]_vars

C10_Witness ==
    \E t, u \in Futures :
        /\ futures[t].state = "FINISHED"
        /\ futures[t].result[1].error # ""
        /\ futures[u].state = "FINISHED"
        /\ futures[u].result[1].error = ""
        /\ results # <<>>
        /\ results[1] = futures[u].result[1]
        /\ t < u

\* the try body of future t ran to its end: urlopen returned a response
Responded(t) ==
    /\ futures[t].state = "FINISHED"
    /\ Answer(t) # Unreached
    /\ ~urlopen(HeadRequest(future_to_url[t]).req, Answer(t)).raised

\* C11: a probe answered with HTTP 200 yields status_code 200, is_404 false
\* and an empty error, and whenever urlopen returns a response the record
\* has a status code and an empty error.
C11_ResponseHasStatus ==
    \A t \in Futures :
        Responded(t) =>
            LET r == futures[t].result[1]
            IN  /\ futures[t].result # None
                /\ r.status_code # None
                /\ r.error = ""
                /\ Answer(t) = Status(200, "OK") =>
                       r.status_code = Some(200) /\ ~r.is_404

\* the request of future t was answered with a status that urlopen raises
Refusal(t) ==
    /\ futures[t].state = "FINISHED"
    /\ Answer(t).kind = "status"
    /\ Answer(t).code \notin 200..299

\* C12: when urlopen raises HTTPError with code c, check_url returns a
\* record with status_code c, is_404 exactly when c is 404, and the
\* description of the error ("HTTP Error c: reason") as its error.
C12_HTTPErrorRecord ==
    \A t \in Futures :
        Refusal(t) =>
            /\ futures[t].exception = None
            /\ futures[t].result # None
            /\ LET r == futures[t].result[1]
                   c == Answer(t).code
               IN  /\ r.status_code = Some(c)
                   /\ r.is_404 = (c = 404)
                   /\ r.error = "HTTP Error " \o ToString(c) \o ": " \o Answer(t).reason

C12_Witness ==
    \E t \in Futures :
        /\ Refusal(t)
        /\ Answer(t).code = 500
        /\ futures[t].result[1].status_code = Some(500)
        /\ ~futures[t].result[1].is_404
        /\ futures[t].result[1].error # ""

\* the futures that as_completed has yielded to the loop of main
Yielded ==
    IF pc = "collect" THEN Futures \ (pending \cup Range(finished))
    ELSE IF Collected THEN Futures
    ELSE {}

\* C13: whatever the order in which the probes end, results holds the record
\* of each yielded future exactly once and nothing else; results changes
\* only in the collecting loop of main, by the append of the record of the
\* future just yielded, and a step of a worker thread leaves results alone.
C13_SafeAggregation ==
    /\ [](Len(results) = Cardinality({t \in Yielded : futures[t].exception = None}))
    /\ [](\A t \in Yielded :
            futures[t].exception = None =>
                Occurrences(results, futures[t].result[1])
                    = Cardinality({u \in Yielded : futures[u].result = futures[t].result}))
    /\ [][ results' # results =>
             /\ pc = "collect" /\ pc' = "collect"
             /\ finished # <<>>
             /\ results' = Append(results, futures[Head(finished)].result[1])
             /\ futures' = futures ]_vars
    /\ [][ futures' # futures => results' = results ]_vars

C13_Witness ==
    /\ pc = "done"
    /\ Len(results) = 2
    /\ Len(futures) = 2
    /\ results[1] = futures[2].result[1]
    /\ results[2] = futures[1].result[1]
    /\ results[1] # results[2]

\* C14: every record that check_url returns has a response_time, whether
\* the try body ended, HTTPError was caught or another exception was caught.
C14_ResponseTimeSet ==
    /\ \A t \in Futures :
          (futures[t].state = "FINISHED" /\ futures[t].result # None) =>
              futures[t].result[1].response_time # None
    /\ \A i \in 1..Len(results) : results[i].response_time # None

C14_Witness ==
    /\ \E t \in Futures :
          /\ Refusal(t)
          /\ futures[t].result[1].response_time # None
    /\ \E t \in Futures :
          /\ futures[t].state = "FINISHED"
          /\ Answer(t) = Refused
          /\ futures[t].result[1].status_code = None
          /\ futures[t].result[1].response_time # None
    /\ Len(results) = 2

\* C15: every record that check_url returns has response_time >= 0,
\* whatever time.time() read at the start and at the end of the probe.
C15_NonNegativeTime ==
    \A t \in Futures :
        (futures[t].state = "FINISHED" /\ futures[t].result # None
            /\ futures[t].result[1].response_time # None) =>
                futures[t].result[1].response_time[1] >= 0

\* list p is the beginning of list q
IsPrefix(p, q) == Len(p) <= Len(q) /\ SubSeq(q, 1, Len(p)) = p

\* C16: results only grows, one record at its end at a time, and the
\* records it holds stay as they are through every later step; a finished
\* future keeps its record, and the end of one probe changes no other
\* future.
C16_AppendOnly ==
    /\ [][ /\ IsPrefix(results, results')
           /\ Len(results') <= Len(results) + 1 ]_vars
    /\ [][ \A t \in Futures :
             futures[t].state = "FINISHED" =>
                 t \in 1..Len(futures') /\ futures'[t] = futures[t] ]_vars
    /\ [][ \A t \in Futures :
             futures'[t].result # futures[t].result =>
                 \A u \in Futures \ {t} : futures'[u].result = futures[u].result ]_vars
    /\ [](Collected => \A i \in 1..Len(results) : output # <<>> =>
             output[i + 1] = OutRow(results[i]))

C16_Witness ==
    /\ pc = "done"
    /\ Len(results) = 2
    /\ results[1].error # ""
    /\ results[2].error = ""
    /\ results[1] = futures[2].result[1]
    /\ Len(output) = 3

\* the input file gave no URL
NoUrl == pc \notin {"read"} /\ urls = <<>>

\* C17: when the input file gives no URL the run still ends: no future is
\* submitted and no worker thread started, nothing is collected, the pool
\* exit is not held up, and the output is the header row alone.
C17_EmptyBatch ==
    /\ [](NoUrl =>
            /\ futures = <<>> /\ future_to_url = <<>> /\ work_queue = <<>>
            /\ num_threads = 0
            /\ finished = <<>> /\ waiter = <<>> /\ pending = {}
            /\ results = <<>> /\ printed \in {<<>>, <<"Results written to no_html_results.csv">>}
            /\ (pc = "collect" => ENABLED ExitPool /\ ~ENABLED Collect)
            /\ (pc = "done" => output = <<Header>>))
    /\ (NoUrl ~> (pc = "done" /\ output = <<Header>>))

C17_Witness ==
    /\ pc = "done"
    /\ urls = <<>>
    /\ rows # <<>>
    /\ output = <<Header>>
    /\ results = <<>>

====
